---------------------------- MODULE Spec2Model ----------------------------
(***************************************************************************)
(* posixmqcontrol: a command line utility that creates, inspects, fills,   *)
(* drains and removes POSIX message queues (src/posixmqcontrol.c).         *)
(*                                                                         *)
(* The model follows one invocation of main(): the dispatch on the verb,   *)
(* the scan of the argument list by parse_options (one loop iteration per  *)
(* step), validate_options, and the per target operations create, info,    *)
(* send, recv and rm, one message queue service call per step.  The        *)
(* message queue service is the environment: every call may fail.          *)
(*                                                                         *)
(* Conventions                                                             *)
(*  - a C string is a TLA+ string; Bytes gives its characters, which the   *)
(*    character level functions (strtol, sane_queue, strlen) work on;      *)
(*  - argv is a sequence, argv[0] of C is argv[1] here: Arg(i) is C's      *)
(*    argv[i], and index / argc keep their C values;                       *)
(*  - modes are numbers, written in decimal (0755 octal = 493);            *)
(*  - the build is the FreeBSD one (__BSD_VISIBLE), the platform the       *)
(*    utility is written for.                                              *)
(***************************************************************************)
EXTENDS Integers, Sequences, FiniteSets, TLC

VARIABLES
    argv,         \* the argument vector, program name first
    pc,           \* position in main: "start", "parse", "validate", "run", "exit"
    verb,         \* the verb family main dispatched to ("" before dispatch)
    index,        \* parse_options: scan position (C index into argv)
    skipped,      \* parse_options: C indices of the tokens warned "skipping"
    invoked,      \* parse_options: <<flag index, option, value index>> per parse call
    queues,       \* STAILQ queues: the queue names collected by -q
    contents,     \* STAILQ contents: the payloads collected by -c
    priority,     \* static long priority
    warnings,     \* the diagnostics the parsers and send wrote to stderr
    creation,     \* static struct Creation creation
    it,           \* main: position of the iterator over queues (1-based)
    itc,          \* main, send: position of the iterator over contents
    worst,        \* main: int worst
    exit_status,  \* what main returned (NoStatus while running)
    op_pc,        \* position inside the per target operation ("idle" outside)
    q_creation,   \* create: its by-value copy of creation
    handle,       \* the operation's mqd_t handle (fail = -1)
    fd,           \* the operation's descriptor from mq_getfd_np
    status,       \* the operation's struct stat
    actual,       \* the operation's struct mq_attr from mq_getattr
    result,       \* the value the operation returns
    errno,        \* the C errno
    mq,           \* the message queue service: name -> queue
    handles,      \* the service: handles opened and not yet passed to mq_close
    next_handle,  \* the service: next handle value
    calls,        \* history: every service call made, in order
    results,      \* history: the name and result of every operation that returned
    faults        \* number of failures injected so far

vars == <<argv, pc, verb, index, skipped, invoked, queues, contents, priority,
          warnings, creation, it, itc, worst, exit_status, op_pc, q_creation, handle, fd,
          status, actual, result, errno, mq, handles, next_handle, calls, results,
          faults>>

-----------------------------------------------------------------------------
(* Bounds of the model.                                                    *)

\* longest list of argument fragments after the verb
MaxItems == 3
\* service call failures injected in one run (failures the service state
\* forces, such as opening a queue that does not exist, are not counted)
MaxFaults == 1

-----------------------------------------------------------------------------
(* Program constants.                                                      *)

EINVAL == 22
ENOENT == 2
EACCES == 13
EBADF == 9
EPERM == 1
EAGAIN == 35
EMSGSIZE == 40
EEXIST == 17
PATH_MAX == 1024
MQ_PRIO_MAX == 64
\* static const mqd_t fail = (mqd_t)-1
fail == -1
\* the literal 0x06777 of create's mode comparison
ModeMask == 26487
\* creation.mode = 0755
DefaultMode == 493
\* the limit 010000 of parse_mode
ModeLimit == 4096
BSD_VISIBLE == TRUE

NoStatus == "running"


-----------------------------------------------------------------------------
(* C strings.  Bytes[s] is the character sequence of the string s, for     *)
(* every string that can appear in an argument vector of the model.        *)

\* '/' followed by n - 1 times 'a': a string of length n
Long(n) == <<"/">> \o [i \in 1..(n - 1) |-> "a"]

Bytes ==
    ("posixmqcontrol" :> <<"p","o","s","i","x","m","q","c","o","n","t","r","o","l">>) @@
    ("create" :> <<"c","r","e","a","t","e">>) @@
    ("attr" :> <<"a","t","t","r">>) @@
    ("info" :> <<"i","n","f","o">>) @@
    ("cat" :> <<"c","a","t">>) @@
    ("send" :> <<"s","e","n","d">>) @@
    ("recv" :> <<"r","e","c","v">>) @@
    ("receive" :> <<"r","e","c","e","i","v","e">>) @@
    ("unlink" :> <<"u","n","l","i","n","k">>) @@
    ("rm" :> <<"r","m">>) @@
    ("help" :> <<"h","e","l","p">>) @@
    ("foo" :> <<"f","o","o">>) @@
    ("-q" :> <<"-","q">>) @@
    ("-d" :> <<"-","d">>) @@
    ("-s" :> <<"-","s">>) @@
    ("-b" :> <<"-","b">>) @@
    ("-m" :> <<"-","m">>) @@
    ("-g" :> <<"-","g">>) @@
    ("-u" :> <<"-","u">>) @@
    ("-c" :> <<"-","c">>) @@
    ("-p" :> <<"-","p">>) @@
    ("-x" :> <<"-","x">>) @@
    ("--mode" :> <<"-","-","m","o","d","e">>) @@
    ("/a" :> <<"/","a">>) @@
    ("/b" :> <<"/","b">>) @@
    ("b" :> <<"b">>) @@
    ("/a/b" :> <<"/","a","/","b">>) @@
    ("" :> <<>>) @@
    ("/" :> <<"/">>) @@
    ("a" :> <<"a">>) @@
    ("//" :> <<"/","/">>) @@
    ("a/" :> <<"a","/">>) @@
    ("aa" :> <<"a","a">>) @@
    ("///" :> <<"/","/","/">>) @@
    ("//a" :> <<"/","/","a">>) @@
    ("/a/" :> <<"/","a","/">>) @@
    ("/aa" :> <<"/","a","a">>) @@
    ("a//" :> <<"a","/","/">>) @@
    ("a/a" :> <<"a","/","a">>) @@
    ("aa/" :> <<"a","a","/">>) @@
    ("aaa" :> <<"a","a","a">>) @@
    ("/a*1023" :> Long(PATH_MAX)) @@
    ("/a*1024" :> Long(PATH_MAX + 1)) @@
    ("/a*1022/" :> Long(PATH_MAX - 1) \o <<"/">>) @@
    ("/a*1023/" :> Long(PATH_MAX) \o <<"/">>) @@
    ("0" :> <<"0">>) @@
    ("1" :> <<"1">>) @@
    ("2" :> <<"2">>) @@
    ("5" :> <<"5">>) @@
    ("7" :> <<"7">>) @@
    ("-1" :> <<"-","1">>) @@
    ("64" :> <<"6","4">>) @@
    ("755" :> <<"7","5","5">>) @@
    ("545" :> <<"5","4","5">>) @@
    ("700" :> <<"7","0","0">>) @@
    ("10000" :> <<"1","0","0","0","0">>) @@
    ("9" :> <<"9">>) @@
    ("2x" :> <<"2","x">>) @@
    ("no" :> <<"n","o">>) @@
    ("yes" :> <<"y","e","s">>) @@
    ("true" :> <<"t","r","u","e">>) @@
    ("false" :> <<"f","a","l","s","e">>) @@
    ("hi" :> <<"h","i">>) @@
    ("hello" :> <<"h","e","l","l","o">>)

strlen(text) == Len(Bytes[text])

DigitValue ==
    ("0" :> 0) @@ ("1" :> 1) @@ ("2" :> 2) @@ ("3" :> 3) @@ ("4" :> 4) @@
    ("5" :> 5) @@ ("6" :> 6) @@ ("7" :> 7) @@ ("8" :> 8) @@ ("9" :> 9)

IsDigit(c, base) == c \in DOMAIN DigitValue /\ DigitValue[c] < base

\* the digits of s from position i on: <<position after the last digit, value>>
RECURSIVE ScanDigits(_, _, _, _)
ScanDigits(s, i, base, acc) ==
    IF i <= Len(s) /\ IsDigit(s[i], base)
    THEN ScanDigits(s, i + 1, base, acc * base + DigitValue[s[i]])
    ELSE <<i, acc>>

RECURSIVE SkipSpace(_, _)
SkipSpace(s, i) == IF i <= Len(s) /\ s[i] = " " THEN SkipSpace(s, i + 1) ELSE i

\* strtol(text, &cursor, base) for base 8 and 10: leading white space, an
\* optional sign, then digits.  cursor is the number of characters consumed
\* (0: no conversion, cursor == text).  The strings of the model are short,
\* so the value never reaches LONG_MAX.
strtol_chars(s, base) ==
    LET i == SkipSpace(s, 1)
        neg == i <= Len(s) /\ s[i] = "-"
        j == IF i <= Len(s) /\ s[i] \in {"-", "+"} THEN i + 1 ELSE i
        d == ScanDigits(s, j, base, 0)
    IN  IF d[1] = j
        THEN [cursor |-> 0, value |-> 0]
        ELSE [cursor |-> d[1] - 1, value |-> IF neg THEN 0 - d[2] ELSE d[2]]

strtol(text, base) == strtol_chars(Bytes[text], base)

\* strtoul: as strtol; the model only feeds it values a 32 bit unsigned holds
strtoul(text, base) == strtol(text, base)

\* bitwise and of two naturals
RECURSIVE BitAnd(_, _)
BitAnd(a, b) ==
    IF a = 0 \/ b = 0 THEN 0
    ELSE 2 * BitAnd(a \div 2, b \div 2) + (IF a % 2 = 1 /\ b % 2 = 1 THEN 1 ELSE 0)

-----------------------------------------------------------------------------
(* OPTIONS parsing utilitarian                                             *)

\* parse_long: the new value of *capture
parse_long(text, capture) ==
    LET r == strtol(text, 10)
    IN  IF r.cursor > 0 THEN r.value ELSE capture

\* parse_long and parse_unsigned: cursor > text, the number was converted
converted(text, base) == strtol(text, base).cursor > 0

\* parse_unsigned: the new <<*set, *capture>>
parse_unsigned(text, set, capture) ==
    LET r == strtoul(text, 8)
    IN  IF r.cursor > 0 THEN <<TRUE, r.value>> ELSE <<set, capture>>

\* the loop of sane_queue, while (*queue && size < PATH_MAX), entered at
\* position q with size characters counted: <<FALSE, ...>> when it meets a
\* second '/', else <<TRUE, position it stops at, characters counted>>.  The
\* loop looks at the positions q..last, one more character counted for each.
sane_scan(s, q, size) ==
    LET room == PATH_MAX - size
        last == IF Len(s) - q + 1 < room THEN Len(s) ELSE q + room - 1
        slashes == {i \in q..last : s[i] = "/"}
    IN  IF slashes # {}
        THEN LET first == CHOOSE i \in slashes : \A j \in slashes : i <= j
             IN  <<FALSE, first, size + (first - q)>>
        ELSE <<TRUE, last + 1, size + (last + 1 - q)>>

\* mutant of sane_chars: the length of the name is not looked at
sane_chars_any_length(s) ==
    IF Len(s) = 0 \/ s[1] # "/" THEN FALSE
    ELSE sane_scan(s, 2, 1)[1]

\* sane_queue on the characters of the name
sane_chars(s) ==
    IF Len(s) = 0 \/ s[1] # "/" THEN FALSE
    ELSE LET r == sane_scan(s, 2, 1)
         IN  IF ~r[1] THEN FALSE
             ELSE IF r[3] = PATH_MAX /\ r[2] <= Len(s) THEN FALSE
             ELSE TRUE

sane_queue(text) == sane_chars(Bytes[text])

-----------------------------------------------------------------------------
(* OPTIONS parsers.  Each takes the value token and the globals            *)
(* g = [creation, queues, contents, priority, warnings] and gives the new   *)
(* globals.                                                                *)

Globals == [creation |-> creation, queues |-> queues, contents |-> contents,
            priority |-> priority, warnings |-> warnings]

\* fprintf(stderr, ...): the diagnostic and the token it is about
Warn(g, what, text) == [g EXCEPT !.warnings = Append(@, <<what, text>>)]

parse_block(text, g) ==
    IF text = "true" \/ text = "yes" THEN [g EXCEPT !.creation.block = TRUE]
    ELSE IF text = "false" \/ text = "no" THEN [g EXCEPT !.creation.block = FALSE]
    ELSE LET r == strtol(text, 10)
         IN  IF r.cursor > 0 THEN [g EXCEPT !.creation.block = (r.value # 0)]
             ELSE Warn(g, "bad block format", text)

parse_content(content, g) == [g EXCEPT !.contents = Append(@, content)]

parse_depth(text, g) ==
    LET h == [g EXCEPT !.creation.depth = parse_long(text, @)]
    IN  IF converted(text, 10) THEN h ELSE Warn(h, "invalid format", text)

\* getgrnam / getpwnam: the account databases hold no entry whose name is a
\* token of the model, except these
group_db == ("wheel" :> 0)
passwd_db == ("root" :> 0)

parse_group(text, g) ==
    IF text \notin DOMAIN group_db
    THEN LET r == parse_unsigned(text, g.creation.set_group, g.creation.group)
             h == [g EXCEPT !.creation.set_group = r[1], !.creation.group = r[2]]
         IN  IF converted(text, 8) THEN h ELSE Warn(h, "format ignored", text)
    ELSE [g EXCEPT !.creation.set_group = TRUE, !.creation.group = group_db[text]]

parse_mode(text, g) ==
    LET r == strtol(text, 8)
    IN  IF r.cursor > 0 /\ r.value > 0 /\ r.value < ModeLimit
        THEN [g EXCEPT !.creation.set_mode = TRUE, !.creation.mode = r.value]
        ELSE Warn(g, "impossible mode", text)

\* mutant of parse_priority: the range of the value is not looked at
parse_priority_any(text, g) ==
    LET r == strtol(text, 10)
    IN  IF r.cursor > 0 THEN [g EXCEPT !.priority = r.value]
        ELSE Warn(g, "bad priority format", text)

parse_priority(text, g) ==
    LET r == strtol(text, 10)
    IN  IF r.cursor > 0
        THEN IF r.value >= 0 /\ r.value < MQ_PRIO_MAX
             THEN [g EXCEPT !.priority = r.value]
             ELSE Warn(g, "bad priority range", text)
        ELSE Warn(g, "bad priority format", text)

\* sane_queue reports the name it rejects
parse_queue(queue, g) ==
    IF sane_queue(queue) THEN [g EXCEPT !.queues = Append(@, queue)]
    ELSE Warn(g, "queue name", queue)

\* mutant of parse_single_queue: a later -q replaces the name kept
parse_single_queue_last(queue, g) ==
    IF sane_queue(queue) THEN [g EXCEPT !.queues = <<queue>>]
    ELSE Warn(g, "queue name", queue)

parse_single_queue(queue, g) ==
    IF sane_queue(queue)
    THEN IF g.queues = <<>> THEN [g EXCEPT !.queues = Append(@, queue)]
         ELSE Warn(g, "ignoring extra queue", queue)
    ELSE Warn(g, "queue name", queue)

parse_size(text, g) ==
    LET h == [g EXCEPT !.creation.size = parse_long(text, @)]
    IN  IF converted(text, 10) THEN h ELSE Warn(h, "invalid format", text)

parse_user(text, g) ==
    IF text \notin DOMAIN passwd_db
    THEN LET r == parse_unsigned(text, g.creation.set_user, g.creation.user)
             h == [g EXCEPT !.creation.set_user = r[1], !.creation.user = r[2]]
         IN  IF converted(text, 8) THEN h ELSE Warn(h, "format ignored", text)
    ELSE [g EXCEPT !.creation.set_user = TRUE, !.creation.user = passwd_db[text]]

-----------------------------------------------------------------------------
(* OPTIONS validators, over the globals                                    *)

validate_always_true == TRUE

validate_content == contents # <<>>

validate_depth == creation.exists \/ creation.depth > 0

validate_mode == creation.mode > 0

\* mutant of validate_queue: a missing -q goes unnoticed
validate_queue_missing == TRUE

validate_queue == queues # <<>>

validate_single_queue == queues # <<>> /\ Len(queues) = 1

validate_size == creation.exists \/ creation.size > 0

-----------------------------------------------------------------------------
(* OPTIONS tables                                                          *)

names_queue == <<"-q", "--queue", "-t", "--topic">>
names_depth == <<"-d", "--depth", "--maxmsg">>
names_size == <<"-s", "--size", "--msgsize">>
names_block == <<"-b", "--block">>
names_content == <<"-c", "--content", "--data", "--message">>
names_priority == <<"-p", "--priority">>
names_mode == <<"-m", "--mode">>
names_group == <<"-g", "--gid">>
names_user == <<"-u", "--uid">>

Option(pattern, parse, validate) ==
    [pattern |-> pattern, parse |-> parse, validate |-> validate]

option_queue == Option(names_queue, "parse_queue", "validate_queue")
option_single_queue == Option(names_queue, "parse_single_queue", "validate_single_queue")
option_depth == Option(names_depth, "parse_depth", "validate_always_true")
option_size == Option(names_size, "parse_size", "validate_always_true")
option_block == Option(names_block, "parse_block", "validate_always_true")
option_content == Option(names_content, "parse_content", "validate_content")
option_priority == Option(names_priority, "parse_priority", "validate_always_true")
option_mode == Option(names_mode, "parse_mode", "validate_mode")
option_group == Option(names_group, "parse_group", "validate_always_true")
option_user == Option(names_user, "parse_user", "validate_always_true")

create_options ==
    IF BSD_VISIBLE
    THEN <<option_queue, option_depth, option_size, option_block, option_mode,
           option_group, option_user>>
    ELSE <<option_queue, option_depth, option_size, option_block, option_mode>>
info_options == <<option_queue>>
unlink_options == <<option_queue>>
recv_options == <<option_single_queue>>
send_options == <<option_queue, option_content, option_priority>>

\* option->parse(text)
CallParse(parse, text, g) ==
    CASE parse = "parse_queue" -> parse_queue(text, g)
      [] parse = "parse_single_queue" -> parse_single_queue(text, g)
      [] parse = "parse_depth" -> parse_depth(text, g)
      [] parse = "parse_size" -> parse_size(text, g)
      [] parse = "parse_block" -> parse_block(text, g)
      [] parse = "parse_content" -> parse_content(text, g)
      [] parse = "parse_priority" -> parse_priority(text, g)
      [] parse = "parse_mode" -> parse_mode(text, g)
      [] parse = "parse_group" -> parse_group(text, g)
      [] parse = "parse_user" -> parse_user(text, g)

\* option->validate()
CallValidate(validate) ==
    CASE validate = "validate_queue" -> validate_queue
      [] validate = "validate_single_queue" -> validate_single_queue
      [] validate = "validate_content" -> validate_content
      [] validate = "validate_mode" -> validate_mode
      [] validate = "validate_always_true" -> validate_always_true

\* the table of the verb family main dispatched to
OptionsOf(v) ==
    CASE v = "create" -> create_options
      [] v = "info" -> info_options
      [] v = "send" -> send_options
      [] v = "recv" -> recv_options
      [] v = "unlink" -> unlink_options

-----------------------------------------------------------------------------
(* The message queue service (mqueue.h), outside the program.              *)

\* the names the service can hold a queue under
QueueNames == {t \in DOMAIN Bytes : sane_queue(t)}

NoQueue == [exists |-> FALSE, mode |-> 0, uid |-> 0, gid |-> 0,
            maxmsg |-> 0, msgsize |-> 0, msgs |-> <<>>]

\* the credentials of the process: the owner and group of a queue it creates
Process == [uid |-> 1001, gid |-> 1001]

\* an entry of the call history
Call(call, more) ==
    more @@ [call |-> call, it |-> it, itc |-> IF verb = "send" THEN itc ELSE 0,
             name |-> "", flags |-> {}, mode |-> 0, maxmsg |-> 0, msgsize |-> 0,
             uid |-> 0, gid |-> 0, text |-> <<>>, prio |-> 0, err |-> 0]

\* a failure may still be injected
CanFail == faults < MaxFaults

\* the outcomes of a call the service state lets succeed: 0, or an injected
\* failure with the given code
Outcomes(code) == {0} \cup (IF CanFail THEN {code} ELSE {})

Injected(err) == IF err # 0 THEN 1 ELSE 0

\* struct stat of a queue: the permission bits, owner and group
StatOf(q) == [st_mode |-> q.mode, st_uid |-> q.uid, st_gid |-> q.gid]
NoStat == [st_mode |-> 0, st_uid |-> 0, st_gid |-> 0]

\* struct mq_attr of a queue as mq_getattr fills it
AttrOf(q) == [mq_flags |-> 0, mq_maxmsg |-> q.maxmsg, mq_msgsize |-> q.msgsize,
              mq_curmsgs |-> Len(q.msgs)]
NoAttr == [mq_flags |-> 0, mq_maxmsg |-> 0, mq_msgsize |-> 0, mq_curmsgs |-> 0]

\* position in q.msgs of the message mq_receive delivers: the oldest of the
\* highest priority
HeadMsg(msgs) ==
    CHOOSE i \in 1..Len(msgs) :
        /\ \A j \in 1..Len(msgs) : msgs[j].prio <= msgs[i].prio
        /\ \A j \in 1..(i - 1) : msgs[j].prio < msgs[i].prio

Remove(seq, i) == SubSeq(seq, 1, i - 1) \o SubSeq(seq, i + 1, Len(seq))

-----------------------------------------------------------------------------
(* main: dispatch on the verb and parse_options                            *)

argc == Len(argv)
Arg(i) == argv[i + 1]

\* the verb family of a verb token, "help", or "unknown"
VerbOf(token) ==
    IF token = "create" \/ token = "attr" THEN "create"
    ELSE IF token = "info" \/ token = "cat" THEN "info"
    ELSE IF token = "send" THEN "send"
    ELSE IF token = "recv" \/ token = "receive" THEN "recv"
    ELSE IF token = "unlink" \/ token = "rm" THEN "unlink"
    ELSE IF token = "help" THEN "help"
    ELSE "unknown"

Exit(code) ==
    /\ pc' = "exit"
    /\ exit_status' = code

\* main, lines 574-582 and 655-666: the verb is looked up
Dispatch ==
    /\ pc = "start"
    /\ IF argc > 1
       THEN LET v == VerbOf(Arg(1))
            IN  IF v = "help" THEN Exit(0) /\ UNCHANGED <<verb, index>>
                ELSE IF v = "unknown" THEN Exit(EINVAL) /\ UNCHANGED <<verb, index>>
                ELSE /\ pc' = "parse"
                     /\ verb' = v
                     /\ index' = 2
                     /\ UNCHANGED exit_status
       ELSE Exit(0) /\ UNCHANGED <<verb, index>>
    /\ UNCHANGED <<argv, skipped, invoked, queues, contents, priority, warnings,
                   creation, it, itc, worst, op_pc, q_creation, handle, fd, status, actual,
                   result, errno, mq, handles, next_handle, calls, results,
                   faults>>

\* the inner loops of parse_options: the position in the table of the first
\* option one of whose patterns is the token, 0 if there is none
Matches(option, token) == \E k \in 1..Len(option.pattern) : option.pattern[k] = token

FirstMatch(options, token) ==
    IF \E c \in 1..Len(options) : Matches(options[c], token)
    THEN CHOOSE c \in 1..Len(options) :
            /\ Matches(options[c], token)
            /\ \A b \in 1..(c - 1) : ~Matches(options[b], token)
    ELSE 0

\* mutant of Advance: an unknown flag takes the next token with it
Advance_pair(match) == 2

\* mutant of Advance: the scan moves on by one token whatever it met
Advance_one(match) == 1

\* how far one iteration of the scan moves on
Advance(match) == IF match THEN 2 ELSE 1

\* the globals as the parse operation left them
SetGlobals(g) ==
    /\ creation' = g.creation
    /\ queues' = g.queues
    /\ contents' = g.contents
    /\ priority' = g.priority
    /\ warnings' = g.warnings

\* parse_options, one iteration of while ((index + 1) < argc)
ParseStep ==
    /\ pc = "parse"
    /\ (index + 1) < argc
    /\ LET options == OptionsOf(verb)
           cursor == FirstMatch(options, Arg(index))
           match == cursor # 0
       IN  /\ IF match
              THEN /\ SetGlobals(CallParse(options[cursor].parse, Arg(index + 1), Globals))
                   /\ invoked' = Append(invoked, <<index, options[cursor].parse, index + 1>>)
                   /\ UNCHANGED skipped
              ELSE /\ skipped' = Append(skipped, index)
                   /\ UNCHANGED <<creation, queues, contents, priority, warnings,
                                  invoked>>
           /\ index' = index + Advance(match)
    /\ UNCHANGED <<argv, pc, verb, it, itc, worst, exit_status, op_pc, q_creation,
                   handle, fd, status, actual, result, errno, mq, handles,
                   next_handle, calls, results, faults>>

\* parse_options, after the loop: a token left over is reported
ParseEnd ==
    /\ pc = "parse"
    /\ ~((index + 1) < argc)
    /\ skipped' = IF index < argc THEN Append(skipped, index) ELSE skipped
    /\ pc' = "validate"
    /\ UNCHANGED <<argv, verb, index, invoked, queues, contents, priority, warnings,
                   creation, it, itc, worst, exit_status, op_pc, q_creation, handle, fd,
                   status, actual, result, errno, mq, handles, next_handle, calls,
                   results, faults>>

\* validate_options: every validator of the table is called
validate_options(options) ==
    \A o \in 1..Len(options) : CallValidate(options[o].validate)

\* main: if (validate_options(...)) { int worst = 0; ... } return EINVAL;
Validate ==
    /\ pc = "validate"
    /\ IF validate_options(OptionsOf(verb))
       THEN /\ pc' = "run"
            /\ worst' = 0
            /\ it' = 1
            /\ itc' = 1
            /\ UNCHANGED exit_status
       ELSE /\ Exit(EINVAL)
            /\ UNCHANGED <<worst, it, itc>>
    /\ UNCHANGED <<argv, verb, index, skipped, invoked, queues, contents, priority,
                   warnings, creation, op_pc, q_creation, handle, fd, status, actual, result,
                   errno, mq, handles, next_handle, calls, results, faults>>

-----------------------------------------------------------------------------
(* main: the loops over the collected queue names (and payloads)           *)

parseVars == <<argv, verb, index, skipped, invoked, queues, contents, priority,
               creation>>
\* what the operations leave alone: parseVars and, but for send, warnings
scanVars == <<parseVars, warnings>>
mainVars == <<pc, it, itc, worst, exit_status, results>>
localVars == <<q_creation, handle, fd, status, actual>>

\* the queue name and the payload of the operation in progress
Target == queues[it]
Content == contents[itc]

\* the first step of the verb's operation
FirstStep(v) == IF v = "unlink" THEN "unlink" ELSE "open"

\* mutant of Begin: the targets share one configuration, so that set_mode
\* stays cleared once a target of the batch was newly created
Begin_carried ==
    /\ pc = "run"
    /\ op_pc = "idle"
    /\ it <= Len(queues)
    /\ op_pc' = FirstStep(verb)
    /\ q_creation' = IF \E k \in 1..Len(calls) :
                            "O_CREAT" \in calls[k].flags /\ calls[k].err = 0
                      THEN [creation EXCEPT !.set_mode = FALSE]
                      ELSE creation
    /\ UNCHANGED <<scanVars, mainVars, handle, fd, status, actual, result,
                   errno, mq, handles, next_handle, calls, faults>>

\* STAILQ_FOREACH: the body is entered for the next element
Begin ==
    /\ pc = "run"
    /\ op_pc = "idle"
    /\ it <= Len(queues)
    /\ op_pc' = FirstStep(verb)
    /\ q_creation' = creation
    /\ UNCHANGED <<scanVars, mainVars, handle, fd, status, actual, result,
                   errno, mq, handles, next_handle, calls, faults>>

\* mutant of Worst: the first failure is kept
Worst_first(w, r) == IF w # 0 THEN w ELSE r

\* if (result != 0) worst = result;
Worst(w, r) == IF r # 0 THEN r ELSE w

\* mutant of NextPair: a failed send ends the loop over the payloads
NextPair_break(i, c, r) ==
    IF verb = "send" /\ c < Len(contents) /\ r = 0 THEN <<i, c + 1>> ELSE <<i + 1, 1>>

\* the iterators after an operation that returned r: send's inner loop moves
\* to the next payload, and past the last one the outer loop moves to the
\* next queue
NextPair(i, c, r) ==
    IF verb = "send" /\ c < Len(contents) THEN <<i, c + 1>> ELSE <<i + 1, 1>>

\* the operation returned: its result is folded into worst and the iterators
\* move on; recv returns its result from main at once
Collect ==
    /\ pc = "run"
    /\ op_pc = "return"
    /\ op_pc' = "idle"
    /\ IF verb = "recv"
       THEN /\ Exit(result)
            /\ UNCHANGED <<worst, it, itc>>
       ELSE /\ worst' = Worst(worst, result)
            /\ it' = NextPair(it, itc, result)[1]
            /\ itc' = NextPair(it, itc, result)[2]
            /\ UNCHANGED <<pc, exit_status>>
    /\ q_creation' = creation
    /\ handle' = fail
    /\ fd' = -1
    /\ status' = NoStat
    /\ actual' = NoAttr
    /\ result' = 0
    /\ results' = Append(results, [name |-> Target, result |-> result])
    /\ UNCHANGED <<scanVars, errno, mq, handles, next_handle, calls, faults>>

\* the loop is over: return worst;
Return ==
    /\ pc = "run"
    /\ op_pc = "idle"
    /\ it > Len(queues)
    /\ Exit(worst)
    /\ UNCHANGED <<scanVars, it, itc, worst, op_pc, localVars, result, errno,
                   mq, handles, next_handle, calls, results, faults>>

-----------------------------------------------------------------------------
(* The service calls.  Each gives the new service state for an outcome     *)
(* err (0: success).                                                       *)

\* mq_open(name, flags) without O_CREAT, or with O_CREAT on a queue that
\* exists: the codes it can end with
OpenOutcomes(name) == IF mq[name].exists THEN Outcomes(EACCES) ELSE {ENOENT}

\* the handle table after a successful open
Opened(name, flags) == handles \cup {[id |-> next_handle, name |-> name, flags |-> flags]}

\* the handle table after mq_close(h)
Closed(h) == {x \in handles : x.id # h}

\* the history after the error path's mq_close(handle), whose result the
\* program ignores
ErrorClose(history, cerr) == Append(history, Call("mq_close", [name |-> Target, err |-> cerr]))

\* the error path of an operation that holds a handle: the failed call is
\* recorded, what = errno is kept, mq_close(handle) is called and its result
\* ignored, and the operation returns what
FailAndClose(entry, what) ==
    /\ \E cerr \in (IF faults + 1 < MaxFaults THEN {0, EBADF} ELSE {0}) :
          /\ calls' = ErrorClose(Append(calls, entry), cerr)
          /\ faults' = faults + 1 + Injected(cerr)
          /\ errno' = IF cerr # 0 THEN cerr ELSE what
    /\ handles' = Closed(handle)
    /\ result' = what
    /\ op_pc' = "return"

-----------------------------------------------------------------------------
(* create(queue, q_creation)                                               *)

\* int flags = O_RDWR; if (!q_creation.block) flags |= O_NONBLOCK;
create_flags(c) == {"O_RDWR"} \cup (IF ~c.block THEN {"O_NONBLOCK"} ELSE {})

\* mutant of create_stuff: depth and size change places
create_stuff_swapped(c) ==
    [mq_flags |-> IF ~c.block THEN {"O_NONBLOCK"} ELSE {},
     mq_maxmsg |-> c.size, mq_msgsize |-> c.depth, mq_curmsgs |-> 0]

\* struct mq_attr stuff = {0, q_creation.depth, q_creation.size, 0, {0}}
create_stuff(c) == [mq_flags |-> IF ~c.block THEN {"O_NONBLOCK"} ELSE {},
                    mq_maxmsg |-> c.depth, mq_msgsize |-> c.size, mq_curmsgs |-> 0]

\* the queue mq_open(queue, flags | O_CREAT, mode, &stuff) creates
NewQueue(mode, stuff) ==
    [exists |-> TRUE, mode |-> mode, uid |-> Process.uid, gid |-> Process.gid,
     maxmsg |-> stuff.mq_maxmsg, msgsize |-> stuff.mq_msgsize, msgs |-> <<>>]

\* mutant of create_checks: one of size and depth is enough
create_checks_either == validate_size \/ validate_depth

\* the size and depth checks create applies to a queue it has to create; the
\* validators read the global creation
create_checks == validate_size /\ validate_depth

\* mutant of AfterProbe: size and depth are required of an existing queue too
AfterProbe_checked(c) ==
    IF ~create_checks THEN "return"
    ELSE IF ~c.exists THEN "open_creat"
    ELSE IF BSD_VISIBLE THEN "getfd" ELSE "close"

\* where create goes after the open without O_CREAT, c.exists telling how it
\* ended: to the open with O_CREAT, to the inspection of the queue, or out
\* (handle == fail)
AfterProbe(c) ==
    IF ~c.exists
    THEN IF create_checks THEN "open_creat" ELSE "return"
    ELSE IF BSD_VISIBLE THEN "getfd" ELSE "close"

\* mutant of NeedsChmod: only the modes are compared
NeedsChmod_modes(c, st) == c.mode # BitAnd(st.st_mode, ModeMask)

\* q_creation.exists && q_creation.set_mode &&
\* q_creation.mode != (status.st_mode & 0x06777)
NeedsChmod(c, st) == c.exists /\ c.set_mode /\ c.mode # BitAnd(st.st_mode, ModeMask)

NeedsChown(c) == c.set_group \/ c.set_user

AfterChown(c, st) == IF NeedsChmod(c, st) THEN "fchmod" ELSE "close"

AfterStat(c, st) == IF NeedsChown(c) THEN "fchown" ELSE AfterChown(c, st)

\* mqd_t handle = mq_open(queue, flags); q_creation.exists = handle != fail;
\* and the decision that follows, up to the next service call
CreateOpen ==
    /\ pc = "run" /\ verb = "create" /\ op_pc = "open"
    /\ \E err \in OpenOutcomes(Target) :
          LET c == [q_creation EXCEPT !.exists = (err = 0)]
              next == AfterProbe(c)
              flags == create_flags(q_creation)
          IN  /\ calls' = Append(calls, Call("mq_open",
                                [name |-> Target, flags |-> flags, err |-> err]))
              /\ faults' = faults + (IF mq[Target].exists THEN Injected(err) ELSE 0)
              /\ handle' = IF err = 0 THEN next_handle ELSE fail
              /\ next_handle' = IF err = 0 THEN next_handle + 1 ELSE next_handle
              /\ handles' = IF err = 0 THEN Opened(Target, flags) ELSE handles
              /\ errno' = IF err # 0 THEN err ELSE errno
              /\ q_creation' = IF next = "open_creat" THEN [c EXCEPT !.set_mode = FALSE] ELSE c
              /\ op_pc' = next
              /\ result' = IF next = "return" THEN errno' ELSE result
    /\ UNCHANGED <<scanVars, mainVars, fd, status, actual, mq>>

\* mutant of creat_flags: the queue must not exist yet
creat_flags_excl(c) == create_flags(c) \cup {"O_CREAT", "O_EXCL"}

\* flags |= O_CREAT;
creat_flags(c) == create_flags(c) \cup {"O_CREAT"}

\* mq_open(name, flags | O_CREAT, mode, &attr): the codes it can end with; a
\* queue that exists is refused only to O_EXCL
CreatOutcomes(name, flags) ==
    IF mq[name].exists /\ "O_EXCL" \in flags THEN {EEXIST} ELSE Outcomes(EACCES)

\* flags |= O_CREAT; handle = mq_open(queue, flags, q_creation.mode, &stuff);
\* a queue that exists by now is opened as it is
CreateOpenCreat ==
    /\ pc = "run" /\ verb = "create" /\ op_pc = "open_creat"
    /\ \E err \in CreatOutcomes(Target, creat_flags(q_creation)) :
          LET flags == creat_flags(q_creation)
              stuff == create_stuff(q_creation)
          IN  /\ calls' = Append(calls, Call("mq_open",
                                [name |-> Target, flags |-> flags,
                                 mode |-> q_creation.mode, maxmsg |-> stuff.mq_maxmsg,
                                 msgsize |-> stuff.mq_msgsize, err |-> err]))
              /\ faults' = faults + (IF err = EEXIST THEN 0 ELSE Injected(err))
              /\ IF err = 0
                 THEN /\ mq' = IF mq[Target].exists THEN mq
                                ELSE [mq EXCEPT ![Target] = NewQueue(q_creation.mode, stuff)]
                      /\ handle' = next_handle
                      /\ next_handle' = next_handle + 1
                      /\ handles' = Opened(Target, flags)
                      /\ op_pc' = IF BSD_VISIBLE THEN "getfd" ELSE "close"
                      /\ UNCHANGED <<errno, result>>
                 ELSE /\ errno' = err
                      /\ result' = err
                      /\ op_pc' = "return"
                      /\ UNCHANGED <<mq, handle, next_handle, handles>>
    /\ UNCHANGED <<scanVars, mainVars, q_creation, fd, status, actual>>

\* int fd = mq_getfd_np(handle);
CreateGetfd ==
    /\ pc = "run" /\ verb = "create" /\ op_pc = "getfd"
    /\ \E err \in Outcomes(EBADF) :
          LET entry == Call("mq_getfd_np", [name |-> Target, err |-> err])
          IN  IF err = 0
              THEN /\ calls' = Append(calls, entry)
                   /\ fd' = handle
                   /\ op_pc' = "fstat"
                   /\ UNCHANGED <<faults, errno, handles, result>>
              ELSE /\ FailAndClose(entry, err)
                   /\ fd' = -1
    /\ UNCHANGED <<scanVars, mainVars, q_creation, handle, status, actual, mq,
                   next_handle>>

\* int result = fstat(fd, &status);
CreateFstat ==
    /\ pc = "run" /\ verb = "create" /\ op_pc = "fstat"
    /\ \E err \in Outcomes(EBADF) :
          LET entry == Call("fstat", [name |-> Target, err |-> err])
          IN  IF err = 0
              THEN /\ calls' = Append(calls, entry)
                   /\ status' = StatOf(mq[Target])
                   /\ op_pc' = AfterStat(q_creation, status')
                   /\ UNCHANGED <<faults, errno, handles, result>>
              ELSE /\ FailAndClose(entry, err)
                   /\ UNCHANGED status
    /\ UNCHANGED <<scanVars, mainVars, q_creation, handle, fd, actual, mq,
                   next_handle>>

\* mutant of chown_ids: the owner and group are passed as they were parsed
chown_ids_parsed(c, st) == c

\* q_creation.user = q_creation.set_user ? q_creation.user : status.st_uid;
\* q_creation.group = q_creation.set_group ? q_creation.group : status.st_gid;
chown_ids(c, st) ==
    [c EXCEPT !.user = IF c.set_user THEN @ ELSE st.st_uid,
              !.group = IF c.set_group THEN @ ELSE st.st_gid]

\* q_creation.user = ...; q_creation.group = ...;
\* result = fchown(fd, q_creation.user, q_creation.group);
CreateFchown ==
    /\ pc = "run" /\ verb = "create" /\ op_pc = "fchown"
    /\ LET c == chown_ids(q_creation, status)
       IN  /\ q_creation' = c
           /\ \E err \in Outcomes(EPERM) :
                 LET entry == Call("fchown", [name |-> Target, uid |-> c.user,
                                              gid |-> c.group, err |-> err])
                 IN  IF err = 0
                     THEN /\ calls' = Append(calls, entry)
                          /\ mq' = [mq EXCEPT ![Target].uid = c.user,
                                              ![Target].gid = c.group]
                          /\ op_pc' = AfterChown(c, status)
                          /\ UNCHANGED <<faults, errno, handles, result>>
                     ELSE /\ FailAndClose(entry, err)
                          /\ UNCHANGED mq
    /\ UNCHANGED <<scanVars, mainVars, handle, fd, status, actual, next_handle>>

\* result = fchmod(fd, q_creation.mode);
CreateFchmod ==
    /\ pc = "run" /\ verb = "create" /\ op_pc = "fchmod"
    /\ \E err \in Outcomes(EPERM) :
          LET entry == Call("fchmod", [name |-> Target, mode |-> q_creation.mode,
                                       err |-> err])
          IN  IF err = 0
              THEN /\ calls' = Append(calls, entry)
                   /\ mq' = [mq EXCEPT ![Target].mode = q_creation.mode]
                   /\ op_pc' = "close"
                   /\ UNCHANGED <<faults, errno, handles, result>>
              ELSE /\ FailAndClose(entry, err)
                   /\ UNCHANGED mq
    /\ UNCHANGED <<scanVars, mainVars, q_creation, handle, fd, status, actual,
                   next_handle>>

\* return mq_close(handle); for create, info, recv and send alike
Close ==
    /\ pc = "run" /\ op_pc = "close"
    /\ \E err \in Outcomes(EBADF) :
          /\ calls' = Append(calls, Call("mq_close", [name |-> Target, err |-> err]))
          /\ faults' = faults + Injected(err)
          /\ errno' = IF err # 0 THEN err ELSE errno
          /\ result' = IF err = 0 THEN 0 ELSE -1
    /\ handles' = Closed(handle)
    /\ op_pc' = "return"
    /\ UNCHANGED <<scanVars, mainVars, localVars, mq, next_handle>>

-----------------------------------------------------------------------------
(* info(queue), recv(queue), send(queue, text, q_priority), rm(queue)      *)

OpenFlags(v) == IF v = "send" THEN {"O_WRONLY"} ELSE {"O_RDONLY"}

\* mqd_t handle = mq_open(queue, O_RDONLY or O_WRONLY);
\* if (handle == fail) return errno;
Open ==
    /\ pc = "run" /\ verb \in {"info", "recv", "send"} /\ op_pc = "open"
    /\ \E err \in OpenOutcomes(Target) :
          LET flags == OpenFlags(verb)
          IN  /\ calls' = Append(calls, Call("mq_open",
                                [name |-> Target, flags |-> flags, err |-> err]))
              /\ faults' = faults + (IF mq[Target].exists THEN Injected(err) ELSE 0)
              /\ IF err = 0
                 THEN /\ handle' = next_handle
                      /\ next_handle' = next_handle + 1
                      /\ handles' = Opened(Target, flags)
                      /\ op_pc' = "getattr"
                      /\ UNCHANGED <<errno, result>>
                 ELSE /\ errno' = err
                      /\ result' = err
                      /\ op_pc' = "return"
                      /\ UNCHANGED <<handle, next_handle, handles>>
    /\ UNCHANGED <<scanVars, mainVars, q_creation, fd, status, actual, mq>>

\* info: int result = mq_getattr(handle, &actual);
\* if (result != 0) return errno;   (the handle is not closed)
InfoGetattr ==
    /\ pc = "run" /\ verb = "info" /\ op_pc = "getattr"
    /\ \E err \in Outcomes(EBADF) :
          /\ calls' = Append(calls, Call("mq_getattr", [name |-> Target, err |-> err]))
          /\ faults' = faults + Injected(err)
          /\ IF err = 0
             THEN /\ actual' = AttrOf(mq[Target])
                  /\ op_pc' = IF BSD_VISIBLE THEN "getfd" ELSE "close"
                  /\ UNCHANGED <<errno, result>>
             ELSE /\ errno' = err
                  /\ result' = err
                  /\ op_pc' = "return"
                  /\ UNCHANGED actual
    /\ UNCHANGED <<scanVars, mainVars, q_creation, handle, fd, status, mq,
                   handles, next_handle>>

\* info: int fd = mq_getfd_np(handle);   (not checked)
InfoGetfd ==
    /\ pc = "run" /\ verb = "info" /\ op_pc = "getfd"
    /\ \E err \in Outcomes(EBADF) :
          /\ calls' = Append(calls, Call("mq_getfd_np", [name |-> Target, err |-> err]))
          /\ faults' = faults + Injected(err)
          /\ fd' = IF err = 0 THEN handle ELSE -1
          /\ errno' = IF err # 0 THEN err ELSE errno
    /\ op_pc' = "fstat"
    /\ UNCHANGED <<scanVars, mainVars, q_creation, handle, status, actual,
                   result, mq, handles, next_handle>>

\* info: result = fstat(fd, &status); a failure is reported, and info goes on
InfoFstat ==
    /\ pc = "run" /\ verb = "info" /\ op_pc = "fstat"
    /\ \E err \in (IF fd < 0 THEN {EBADF} ELSE Outcomes(EBADF)) :
          /\ calls' = Append(calls, Call("fstat", [name |-> Target, err |-> err]))
          /\ faults' = faults + (IF fd < 0 THEN 0 ELSE Injected(err))
          /\ status' = IF err = 0 THEN StatOf(mq[Target]) ELSE status
          /\ errno' = IF err # 0 THEN err ELSE errno
    /\ op_pc' = "close"
    /\ UNCHANGED <<scanVars, mainVars, q_creation, handle, fd, actual, result,
                   mq, handles, next_handle>>

\* send: if (size > actual.mq_msgsize)
send_truncates(text, attr) == strlen(text) > attr.mq_msgsize

\* mutant of send_size: the payload is never cut
send_size_whole(text, attr) == strlen(text)

\* int size = strlen(text);
\* if (size > actual.mq_msgsize) size = actual.mq_msgsize;
send_size(text, attr) ==
    IF send_truncates(text, attr) THEN attr.mq_msgsize ELSE strlen(text)

\* recv and send: int result = mq_getattr(handle, &actual);
\* if (result != 0) { mq_close(handle); return errno; }
\* send then measures the payload and warns when it will be cut
Getattr ==
    /\ pc = "run" /\ verb \in {"recv", "send"} /\ op_pc = "getattr"
    /\ \E err \in Outcomes(EBADF) :
          LET entry == Call("mq_getattr", [name |-> Target, err |-> err])
              attr == AttrOf(mq[Target])
          IN  IF err = 0
              THEN /\ calls' = Append(calls, entry)
                   /\ actual' = attr
                   /\ op_pc' = IF verb = "recv" THEN "receive" ELSE "send"
                   /\ warnings' = IF verb = "send" /\ send_truncates(Content, attr)
                                  THEN Append(warnings, <<"truncating message", Content>>)
                                  ELSE warnings
                   /\ UNCHANGED <<faults, errno, handles, result>>
              ELSE /\ FailAndClose(entry, err)
                   /\ UNCHANGED <<actual, warnings>>
    /\ UNCHANGED <<parseVars, mainVars, q_creation, handle, fd, status, mq,
                   next_handle>>

\* recv: result = mq_receive(handle, text, actual.mq_msgsize, &priority);
\* the handle is a blocking one: on an empty queue the call does not return
RecvReceive ==
    /\ pc = "run" /\ verb = "recv" /\ op_pc = "receive"
    /\ \E err \in Outcomes(EAGAIN) :
          IF err = 0
          THEN /\ mq[Target].msgs # <<>>
               /\ LET i == HeadMsg(mq[Target].msgs)
                      m == mq[Target].msgs[i]
                  IN  /\ calls' = Append(calls, Call("mq_receive",
                                   [name |-> Target, text |-> m.text,
                                    prio |-> m.prio, err |-> 0]))
                      /\ mq' = [mq EXCEPT ![Target].msgs = Remove(@, i)]
               /\ op_pc' = "close"
               /\ UNCHANGED <<faults, errno, handles, result>>
          ELSE /\ FailAndClose(Call("mq_receive", [name |-> Target, err |-> err]), err)
               /\ UNCHANGED mq
    /\ UNCHANGED <<scanVars, mainVars, localVars, next_handle>>

\* mq_send(handle, text, size, prio): the codes it can end with; the service
\* refuses a message longer than the queue's message size
SendOutcomes(name, size) ==
    IF size > mq[name].msgsize THEN {EMSGSIZE} ELSE Outcomes(EAGAIN)

\* send: result = mq_send(handle, text, size, q_priority);
\* the handle is a blocking one: on a full queue the call does not return
SendSend ==
    /\ pc = "run" /\ verb = "send" /\ op_pc = "send"
    /\ \E err \in SendOutcomes(Target, send_size(Content, actual)) :
          LET size == send_size(Content, actual)
              bytes == SubSeq(Bytes[Content], 1, size)
              entry == Call("mq_send", [name |-> Target, text |-> bytes,
                                        prio |-> priority, err |-> err])
          IN  IF err = 0
              THEN /\ Len(mq[Target].msgs) < mq[Target].maxmsg
                   /\ calls' = Append(calls, entry)
                   /\ mq' = [mq EXCEPT ![Target].msgs =
                                Append(@, [text |-> bytes, prio |-> priority])]
                   /\ op_pc' = "close"
                   /\ UNCHANGED <<faults, errno, handles, result>>
              ELSE /\ FailAndClose(entry, err)
                   /\ UNCHANGED mq
    /\ UNCHANGED <<scanVars, mainVars, localVars, next_handle>>

\* rm: int result = mq_unlink(queue); if (result != 0) return errno;
Rm ==
    /\ pc = "run" /\ verb = "unlink" /\ op_pc = "unlink"
    /\ \E err \in (IF mq[Target].exists THEN Outcomes(EACCES) ELSE {ENOENT}) :
          /\ calls' = Append(calls, Call("mq_unlink", [name |-> Target, err |-> err]))
          /\ faults' = faults + (IF mq[Target].exists THEN Injected(err) ELSE 0)
          /\ mq' = IF err = 0 THEN [mq EXCEPT ![Target] = NoQueue] ELSE mq
          /\ errno' = IF err # 0 THEN err ELSE errno
          /\ result' = err
    /\ op_pc' = "return"
    /\ UNCHANGED <<scanVars, mainVars, localVars, handles, next_handle>>

\* the queue a process other than the utility creates
OtherQueue == [exists |-> TRUE, mode |-> 416, uid |-> 2002, gid |-> 2002,
               maxmsg |-> 5, msgsize |-> 5, msgs |-> <<>>]

\* the environment: between create's open without O_CREAT, which found no
\* queue, and its open with O_CREAT, another process creates the queue
OtherCreates ==
    /\ pc = "run" /\ verb = "create" /\ op_pc = "open_creat"
    /\ ~mq[Target].exists
    /\ mq' = [mq EXCEPT ![Target] = OtherQueue]
    /\ calls' = Append(calls, Call("mq_open by another process",
                                   [name |-> Target, it |-> 0, itc |-> 0,
                                    flags |-> {"O_CREAT"}]))
    /\ UNCHANGED <<scanVars, mainVars, localVars, op_pc, result, errno, handles,
                   next_handle, faults>>

-----------------------------------------------------------------------------
(* The invocations checked                                                 *)

RECURSIVE Flatten(_)
Flatten(ss) == IF ss = <<>> THEN <<>> ELSE ss[1] \o Flatten(Tail(ss))

\* the lists of at most n fragments
Lists(items, n) == UNION {[1..k -> items] : k \in 0..n}

Verbs == {"attr", "info", "cat", "send", "recv", "receive", "unlink", "rm",
          "help", "foo"}

\* argument fragments for every verb: two queue names, a payload, the size
\* and depth of a new queue, and a flag no table knows
Items == {<<"-q", "/a">>, <<"-q", "/b">>, <<"-c", "hi">>,
          <<"-s", "2", "-d", "1">>, <<"-x">>}

\* argument fragments for create: two queue names and the attributes
CreateItems == {<<"-q", "/a">>, <<"-q", "/b">>, <<"-s", "2", "-d", "1">>,
                <<"-s", "0">>, <<"-m", "755">>, <<"-m", "700">>, <<"-b", "no">>,
                <<"-u", "7">>}

Invocations ==
    {<<"posixmqcontrol">>} \cup
    {<<"posixmqcontrol", v>> \o Flatten(l) : v \in Verbs, l \in Lists(Items, MaxItems)} \cup
    {<<"posixmqcontrol", "create">> \o Flatten(l) : l \in Lists(CreateItems, MaxItems)}

\* a queue /a that holds one message; no queue /b
QueueA == [exists |-> TRUE, mode |-> DefaultMode, uid |-> Process.uid,
           gid |-> Process.gid, maxmsg |-> 2, msgsize |-> 2,
           msgs |-> <<[text |-> <<"h", "i">>, prio |-> 5]>>]

Services == {[n \in QueueNames |-> IF n = "/a" THEN QueueA ELSE NoQueue]}

\* static struct Creation creation = { ... }
creation_init ==
    [exists |-> FALSE, set_mode |-> FALSE, mode |-> DefaultMode, depth |-> -1,
     size |-> -1, block |-> TRUE, set_group |-> FALSE, group |-> 0,
     set_user |-> FALSE, user |-> 0]

\* the state main starts in, for an argument vector and a service state
InitWith(args, services) ==
    /\ argv \in args
    /\ mq \in services
    /\ pc = "start"
    /\ verb = ""
    /\ index = 0
    /\ skipped = <<>>
    /\ invoked = <<>>
    /\ queues = <<>>
    /\ contents = <<>>
    /\ priority = MQ_PRIO_MAX \div 2
    /\ warnings = <<>>
    /\ creation = creation_init
    /\ it = 0
    /\ itc = 0
    /\ worst = 0
    /\ exit_status = NoStatus
    /\ op_pc = "idle"
    /\ q_creation = creation_init
    /\ handle = fail
    /\ fd = -1
    /\ status = NoStat
    /\ actual = NoAttr
    /\ result = 0
    /\ errno = 0
    /\ handles = {}
    /\ next_handle = 3
    /\ calls = <<>>
    /\ results = <<>>
    /\ faults = 0

Init == InitWith(Invocations, Services)

\* recv and receive with up to MaxItems -q options, one of them with a name
\* that is not sane
RecvItems == {<<"-q", "/a">>, <<"-q", "/b">>, <<"-q", "b">>, <<"-x">>}

\* create with up to MaxItems fragments: a queue that exists, one that has to
\* be created, an owner, a group and a mode
OwnerItems == {<<"-q", "/a">>, <<"-q", "/b", "-s", "2", "-d", "1">>,
               <<"-u", "7">>, <<"-g", "5">>, <<"-m", "700">>}

InitCreate ==
    InitWith({<<"posixmqcontrol", "create">> \o Flatten(l) : l \in Lists(OwnerItems, MaxItems)},
             Services)

\* create and send on the queue /a, with up to MaxItems scalar options: a
\* depth with a letter after its digit, modes and priorities in range, at
\* both ends of the range, and beyond
ScalarItems == {<<"-d", "2x">>, <<"-m", "700">>, <<"-m", "10000">>, <<"-m", "0">>,
                <<"-p", "5">>, <<"-p", "64">>, <<"-p", "-1">>}

InitScalar ==
    InitWith({<<"posixmqcontrol", "create", "-q", "/a">> \o Flatten(l) :
                 l \in Lists(ScalarItems, MaxItems)}
             \cup {<<"posixmqcontrol", "send", "-q", "/a", "-c", "hi">> \o Flatten(l) :
                 l \in Lists(ScalarItems, MaxItems)},
             Services)

\* every verb family, that is every option table, with any list of up to
\* MaxItems + 2 single tokens: flags with and without a value after them,
\* values without a flag, a flag no table knows
ScanTokens == {<<"-q">>, <<"/a">>, <<"-x">>, <<"-d">>}

InitScan ==
    InitWith({<<"posixmqcontrol", v>> \o Flatten(l) :
                 v \in {"create", "info", "send", "recv", "unlink"},
                 l \in Lists(ScanTokens, MaxItems + 2)},
             Services)

InitRecv ==
    InitWith({<<"posixmqcontrol", v>> \o Flatten(l) :
                 v \in {"recv", "receive"}, l \in Lists(RecvItems, MaxItems)},
             Services)

\* queue name candidates: every string of up to three characters over '/'
\* and 'a', and strings of PATH_MAX and PATH_MAX + 1 characters with and
\* without a second '/' at their end
NameTokens == {"", "/", "a", "//", "/a", "a/", "aa", "///", "//a", "/a/", "/aa",
               "a//", "a/a", "aa/", "aaa",
               "/a*1023", "/a*1024", "/a*1022/", "/a*1023/"}

\* one -q or two, given to the parser of many names (info) and to the parser
\* of a single name (recv)
InitNames ==
    InitWith({<<"posixmqcontrol", v>> \o Flatten(l) :
                 v \in {"info", "recv"}, l \in Lists({<<"-q", t>> : t \in NameTokens}, 2)},
             Services)

\* send with up to MaxItems fragments: two queue names, two payloads, one of
\* them longer than the message size of /a, and a priority
SendItems == {<<"-q", "/a">>, <<"-q", "/b">>, <<"-c", "hi", "-c", "hello">>,
              <<"-p", "5">>}

\* an empty queue /a with room for four messages of two bytes; no queue /b
RoomyQueue ==
    [exists |-> TRUE, mode |-> DefaultMode, uid |-> Process.uid,
     gid |-> Process.gid, maxmsg |-> 4, msgsize |-> 2, msgs |-> <<>>]

SendServices == {[n \in QueueNames |-> IF n = "/a" THEN RoomyQueue ELSE NoQueue]}

InitSend ==
    InitWith({<<"posixmqcontrol", "send">> \o Flatten(l) : l \in Lists(SendItems, MaxItems)},
             SendServices)

Next ==
    \/ Dispatch
    \/ ParseStep
    \/ ParseEnd
    \/ Validate
    \/ Begin
    \/ Collect
    \/ Return
    \/ CreateOpen
    \/ CreateOpenCreat
    \/ CreateGetfd
    \/ CreateFstat
    \/ CreateFchown
    \/ CreateFchmod
    \/ Open
    \/ InfoGetattr
    \/ InfoGetfd
    \/ InfoFstat
    \/ Getattr
    \/ RecvReceive
    \/ SendSend
    \/ Rm
    \/ Close

Spec == Init /\ [][Next]_vars

\* the steps of a create invocation, and of the other process
NextCreate ==
    \/ Dispatch
    \/ ParseStep
    \/ ParseEnd
    \/ Validate
    \/ Begin
    \/ Collect
    \/ Return
    \/ CreateOpen
    \/ CreateOpenCreat
    \/ CreateGetfd
    \/ CreateFstat
    \/ CreateFchown
    \/ CreateFchmod
    \/ Close
    \/ OtherCreates

SpecCreate == InitCreate /\ [][NextCreate]_vars

\* the steps of a create invocation on a queue that exists, and of a send
\* invocation
NextScalar ==
    \/ Dispatch
    \/ ParseStep
    \/ ParseEnd
    \/ Validate
    \/ Begin
    \/ Collect
    \/ Return
    \/ CreateOpen
    \/ CreateGetfd
    \/ CreateFstat
    \/ CreateFchmod
    \/ Open
    \/ Getattr
    \/ SendSend
    \/ Close

SpecScalar == InitScalar /\ [][NextScalar]_vars

\* parse_options alone: the steps of main up to the end of the scan.  The
\* program is sequential: a step that can be taken is taken.
NextScan ==
    \/ Dispatch
    \/ ParseStep
    \/ ParseEnd

SpecScan == InitScan /\ [][NextScan]_vars /\ WF_vars(NextScan)

\* the steps of a recv invocation
NextRecv ==
    \/ Dispatch
    \/ ParseStep
    \/ ParseEnd
    \/ Validate
    \/ Begin
    \/ Collect
    \/ Open
    \/ Getattr
    \/ RecvReceive
    \/ Close

SpecRecv == InitRecv /\ [][NextRecv]_vars

\* the steps of an info or a recv invocation
NextNames ==
    \/ Dispatch
    \/ ParseStep
    \/ ParseEnd
    \/ Validate
    \/ Begin
    \/ Collect
    \/ Return
    \/ Open
    \/ InfoGetattr
    \/ InfoGetfd
    \/ InfoFstat
    \/ Getattr
    \/ RecvReceive
    \/ Close

SpecNames == InitNames /\ [][NextNames]_vars

\* the steps of a send invocation
NextSend ==
    \/ Dispatch
    \/ ParseStep
    \/ ParseEnd
    \/ Validate
    \/ Begin
    \/ Collect
    \/ Return
    \/ Open
    \/ Getattr
    \/ SendSend
    \/ Close

SpecSend == InitSend /\ [][NextSend]_vars

-----------------------------------------------------------------------------
(* Properties.                                                             *)

\* the calls of the operation in progress (of the one that is returning,
\* when op_pc = "return")
OpCalls ==
    SelectSeq(calls, LAMBDA e : e.it = it /\ e.itc = (IF verb = "send" THEN itc ELSE 0))

Failed(seq) == {k \in 1..Len(seq) : seq[k].err # 0}

CountCalls(seq, call) == Cardinality({k \in 1..Len(seq) : seq[k].call = call})

IsCreating(e) == e.call = "mq_open" /\ "O_CREAT" \in e.flags

\* a create operation is returning
CreateReturns == pc = "run" /\ verb = "create" /\ op_pc = "return"

\* what the validators of each verb's table require of the parsed globals,
\* stated from the option tables of the documentation
SomeValidatorFails ==
    CASE verb = "create" -> queues = <<>> \/ ~(creation.mode > 0)
      [] verb = "info" -> queues = <<>>
      [] verb = "unlink" -> queues = <<>>
      [] verb = "send" -> queues = <<>> \/ contents = <<>>
      [] verb = "recv" -> Len(queues) # 1
      [] OTHER -> FALSE

Parsed == pc \in {"validate", "run", "exit"} /\ verb # ""

\* C1: if a validator of the verb's table fails after parsing, main returns
\* EINVAL and no service call is ever made; service calls are made only when
\* every validator passed.
C1_ValidationGate ==
    /\ (Parsed /\ SomeValidatorFails) =>
          /\ calls = <<>>
          /\ pc # "run"
          /\ (pc = "exit" => exit_status = EINVAL)
    /\ calls # <<>> => (Parsed /\ ~SomeValidatorFails)

C1_Witness ==
    /\ pc = "exit" /\ verb = "send" /\ exit_status = EINVAL
    /\ queues # <<>> /\ contents = <<>> /\ calls = <<>>

\* the last non-zero element of a sequence of results, 0 if there is none
RECURSIVE LastNonZero(_)
LastNonZero(rs) ==
    IF rs = <<>> THEN 0
    ELSE IF rs[Len(rs)].result # 0 THEN rs[Len(rs)].result
    ELSE LastNonZero(SubSeq(rs, 1, Len(rs) - 1))

\* the first call of every operation, in the order made
FirstCalls ==
    SelectSeq(calls, LAMBDA e : e.call = "mq_unlink" \/ (e.call = "mq_open" /\ ~IsCreating(e)))

BatchDone == pc = "exit" /\ verb \in {"create", "info", "unlink"} /\ ~SomeValidatorFails

\* C2: for create, info and unlink the operation is attempted on every
\* collected name, in insertion order, whatever the earlier results, and main
\* returns the last non-zero result, or 0 if there is none.
C2_BatchLastFailureWins ==
    BatchDone =>
        /\ Len(results) = Len(queues)
        /\ \A k \in 1..Len(queues) : results[k].name = queues[k]
        /\ Len(FirstCalls) = Len(queues)
        /\ \A k \in 1..Len(queues) : FirstCalls[k].name = queues[k] /\ FirstCalls[k].it = k
        /\ exit_status = LastNonZero(results)

\* two targets failed with different codes, and a later one succeeded
C2_Witness ==
    /\ BatchDone
    /\ Len(results) = 3
    /\ results[1].result # 0 /\ results[2].result # 0 /\ results[3].result = 0
    /\ results[1].result # results[2].result
    /\ exit_status = results[2].result

\* the calls of the returning create before its mode change
BeforeChmod(seq) == SelectSeq(seq, LAMBDA e : e.call \notin {"fchmod", "mq_close"})

\* the create that returns found the queue, a mode was requested, and no step
\* before the mode change failed
ReconciledWithMode ==
    /\ CreateReturns
    /\ q_creation.exists
    /\ creation.set_mode
    /\ Failed(BeforeChmod(OpCalls)) = {}

\* C3: create on a queue that exists, with a mode requested and no earlier
\* step failing, makes exactly one mode change call if the requested mode
\* differs from the permission bits observed, and none if they are equal.
C3_ModeChangeIffDiffers ==
    ReconciledWithMode =>
        CountCalls(OpCalls, "fchmod") = (IF creation.mode # status.st_mode THEN 1 ELSE 0)

\* C4: create on a queue that exists does not apply the size and depth
\* check: whatever size and depth are, when no step fails the queue is
\* inspected and closed, create returns 0, and no open with O_CREAT is made.
C4_ExistingNeedsNoSizeDepth ==
    (CreateReturns /\ OpCalls[1].err = 0 /\ Failed(OpCalls) = {}) =>
        /\ result = 0
        /\ \A k \in 1..Len(OpCalls) : ~IsCreating(OpCalls[k])
        /\ OpCalls[Len(OpCalls)].call = "mq_close"
        /\ CountCalls(OpCalls, "fstat") = 1

C4_Witness ==
    /\ CreateReturns /\ OpCalls[1].err = 0 /\ Failed(OpCalls) = {}
    /\ creation.size = -1 /\ creation.depth = -1
    /\ result = 0

BadSizeOrDepth == creation.size <= 0 \/ creation.depth <= 0

\* C5: create on a queue whose open without O_CREAT fails, with size <= 0 or
\* depth <= 0, returns non-zero after that one call: no open with O_CREAT,
\* no fchown, no fchmod, and a queue that did not exist still does not; an
\* open with O_CREAT is only ever made with size > 0 and depth > 0.
C5_NewQueueNeedsSizeDepth ==
    /\ (CreateReturns /\ OpCalls[1].err # 0 /\ BadSizeOrDepth) =>
          /\ result # 0
          /\ Len(OpCalls) = 1
          /\ (OpCalls[1].err = ENOENT => ~mq[Target].exists)
    /\ \A k \in 1..Len(calls) :
          IsCreating(calls[k]) => calls[k].msgsize > 0 /\ calls[k].maxmsg > 0

\* rejected with a size given and no depth
C5_Witness ==
    /\ CreateReturns /\ OpCalls[1].err = ENOENT
    /\ creation.size <= 0 /\ creation.depth > 0
    /\ result # 0 /\ ~mq[Target].exists

\* C6: when create finds no queue and size or depth is not positive, the
\* result of the target is the invalid argument code, not the code of a
\* service call.
C6_RejectionIsEINVAL ==
    (CreateReturns /\ ~q_creation.exists /\ BadSizeOrDepth) => result = EINVAL

\* the create that returns made a queue that did not exist, and no call but
\* the first open failed
Created ==
    /\ CreateReturns
    /\ Len(OpCalls) > 1
    /\ OpCalls[1].err = ENOENT
    /\ IsCreating(OpCalls[2])
    /\ Failed(OpCalls) = {1}

\* C7: create of a queue that does not exist, with size > 0 and depth > 0
\* and no call failing: the queue exists with maximum message size = size,
\* maximum depth = depth, mode = the requested mode (0755 if none was
\* given), it was opened non-blocking iff block is false, and create
\* returns 0.
C7_CreatesAsRequested ==
    Created =>
        /\ creation.size > 0 /\ creation.depth > 0
        /\ mq[Target].exists
        /\ mq[Target].msgsize = creation.size
        /\ mq[Target].maxmsg = creation.depth
        /\ mq[Target].mode = creation.mode
        /\ (~creation.set_mode => mq[Target].mode = 493)
        /\ ("O_NONBLOCK" \in OpCalls[2].flags <=> ~creation.block)
        /\ result = 0

\* a queue created non-blocking, and one created with a requested mode
C7_Witness ==
    /\ Created /\ result = 0
    /\ ~creation.block
    /\ mq[Target].msgsize = 2 /\ mq[Target].maxmsg = 1

\* C8: every handle an operation opened is closed before the operation
\* returns: none is open between operations or when main returns.
C8_HandlesScoped ==
    (op_pc \in {"idle", "return"} \/ pc = "exit") => handles = {}

\* a call that ends an operation when it fails: every call but the open
\* without O_CREAT by which create finds out whether the queue exists
Terminal(e) == ~(verb = "create" /\ e.call = "mq_open" /\ ~IsCreating(e))

\* C9: when a service call made for a target fails, the operation stops (it
\* makes no further call but the mq_close of its error path) and the
\* target's result is the error code of the failing call.
C9_FailureIsResult ==
    (pc = "run" /\ op_pc = "return") =>
        \A k \in Failed(OpCalls) :
            Terminal(OpCalls[k]) =>
                /\ result = OpCalls[k].err
                /\ \A j \in (k + 1)..Len(OpCalls) : OpCalls[j].call = "mq_close"

\* the aliases of the options of a verb's table
Aliases(v) ==
    UNION {{OptionsOf(v)[c].pattern[k] : k \in 1..Len(OptionsOf(v)[c].pattern)} :
           c \in 1..Len(OptionsOf(v))}

\* C10: in the scan, a token at the flag position that matches no alias of
\* the verb's table is skipped (reported) and the scan moves on by exactly
\* one token, no parse operation being invoked, so that the next token is
\* examined as a flag; a matching token invokes a parse operation with the
\* next token and moves the scan on by exactly two.
C10_UnknownFlagSkipsOne ==
    [][(pc = "parse" /\ (index + 1) < argc) =>
         IF Arg(index) \in Aliases(verb)
         THEN /\ index' = index + 2
              /\ Len(invoked') = Len(invoked) + 1
              /\ invoked'[Len(invoked')][1] = index
              /\ invoked'[Len(invoked')][3] = index + 1
              /\ skipped' = skipped
         ELSE /\ index' = index + 1
              /\ skipped' = Append(skipped, index)
              /\ invoked' = invoked
              /\ <<queues, contents, priority, creation>>' =
                    <<queues, contents, priority, creation>>]_vars

\* a skipped token directly followed by a flag that was parsed with its value
C10_Witness ==
    \E i \in 1..Len(skipped) : \E j \in 1..Len(invoked) :
        /\ invoked[j][1] = skipped[i] + 1
        /\ Arg(invoked[j][3]) \in {"/a", "/b"}
        /\ Len(queues) > 0


-----------------------------------------------------------------------------
(* Queue names and the single target of recv                               *)

\* a queue name as the documentation describes it: a leading '/', no other
\* '/', and no longer than PATH_MAX
WellFormedName(s) ==
    /\ Len(s) >= 1
    /\ s[1] = "/"
    /\ \A i \in 2..Len(s) : s[i] # "/"
    /\ Len(s) <= PATH_MAX

\* the value tokens of the option occurrences the scan has parsed, in order
Values == [k \in 1..Len(invoked) |-> Arg(invoked[k][3])]

\* the positions in Values of the well formed names
SaneAt == {k \in 1..Len(Values) : WellFormedName(Bytes[Values[k]])}

FirstSane == CHOOSE k \in SaneAt : \A j \in SaneAt : k <= j

\* the diagnostic recv's -q gives for each occurrence but the one kept
ExtraQueueWarnings ==
    [k \in 1..(Len(Values) - (IF SaneAt = {} THEN 0 ELSE 1)) |->
        LET o == IF SaneAt # {} /\ k >= FirstSane THEN k + 1 ELSE k
        IN  <<IF o \in SaneAt THEN "ignoring extra queue" ELSE "queue name", Values[o]>>]

\* C11: for recv / receive the queue collection holds at most one name, the
\* value of the first -q occurrence whose value is a well formed queue name;
\* every other -q occurrence is discarded with a diagnostic (a later well
\* formed name with the extra queue warning); when main returns with a name
\* collected, exactly one recv operation was made, on that name, with at
\* most one mq_receive call, and its result is the exit status.
C11_FirstSaneQueueKept ==
    verb = "recv" =>
        /\ Len(queues) <= 1
        /\ queues = (IF SaneAt = {} THEN <<>> ELSE <<Values[FirstSane]>>)
        /\ warnings = ExtraQueueWarnings
        /\ \A k \in 1..Len(calls) : calls[k].name = queues[1]
        /\ CountCalls(calls, "mq_receive") <= 1
        /\ (pc = "exit" /\ queues # <<>>) =>
              /\ Len(results) = 1
              /\ results[1].name = queues[1]
              /\ exit_status = results[1].result
              /\ (exit_status = 0 => CountCalls(calls, "mq_receive") = 1)

\* a name that is not sane, then the name kept, then a name discarded, and
\* the message received from the name kept
C11_Witness ==
    /\ verb = "recv" /\ pc = "exit" /\ exit_status = 0
    /\ Len(Values) = 3 /\ SaneAt = {2, 3}
    /\ queues = <<Values[2]>> /\ Values[3] # Values[2]
    /\ CountCalls(calls, "mq_receive") = 1

\* C11 as stated: the name kept is the value of the first -q occurrence, and
\* every later occurrence is discarded with a warning.
C11_FirstOccurrenceKept ==
    verb = "recv" =>
        /\ Len(queues) <= 1
        /\ queues # <<>> => queues[1] = Values[1]
        /\ \A k \in 2..Len(Values) : \E w \in 1..Len(warnings) : warnings[w][2] = Values[k]
        /\ (pc = "exit" /\ queues # <<>>) =>
              /\ Len(results) = 1
              /\ results[1].name = queues[1]


-----------------------------------------------------------------------------
(* send                                                                    *)

SendDone == pc = "exit" /\ verb = "send" /\ ~SomeValidatorFails

\* the position of the k-th (queue, payload) pair in queue-major order
PairQueue(k) == ((k - 1) \div Len(contents)) + 1
PairContent(k) == ((k - 1) % Len(contents)) + 1

\* the opens the send operations begin with, in the order made
SendOpens == SelectSeq(calls, LAMBDA e : e.call = "mq_open")

\* the first min(length, limit) characters of a payload
Prefix(text, limit) ==
    SubSeq(Bytes[text], 1, IF Len(Bytes[text]) > limit THEN limit ELSE Len(Bytes[text]))

\* C12: send with queue names q1..qN and payloads c1..cM attempts exactly
\* N*M send operations, in the order (q1,c1), (q1,c2), ..., (qN,cM), each
\* on its queue with its payload and every one with the single configured
\* priority; a failing send does not prevent the later ones; main returns
\* the last non-zero result, or 0 if there is none.
C12_SendEveryPair ==
    SendDone =>
        /\ Len(results) = Len(queues) * Len(contents)
        /\ Len(SendOpens) = Len(queues) * Len(contents)
        /\ \A k \in 1..Len(results) :
              /\ results[k].name = queues[PairQueue(k)]
              /\ SendOpens[k].name = queues[PairQueue(k)]
              /\ SendOpens[k].it = PairQueue(k)
              /\ SendOpens[k].itc = PairContent(k)
        /\ \A k \in 1..Len(calls) :
              calls[k].call = "mq_send" =>
                 /\ calls[k].prio = priority
                 /\ calls[k].name = queues[calls[k].it]
                 /\ \E n \in 0..Len(Bytes[contents[calls[k].itc]]) :
                       calls[k].text = Prefix(contents[calls[k].itc], n)
        /\ exit_status = LastNonZero(results)

\* two queues and two payloads: the sends to the first queue failed (there
\* is no such queue) and the later ones were made
C12_Witness ==
    /\ SendDone
    /\ Len(queues) = 2 /\ Len(contents) = 2
    /\ Len(results) = 4
    /\ results[1].result # 0 /\ results[2].result # 0
    /\ results[3].result = 0 /\ results[4].result = 0
    /\ exit_status = results[2].result
    /\ CountCalls(calls, "mq_send") = 2

\* the messages the successful mq_send calls put on the queue name, in order
Sent(name) ==
    LET s == SelectSeq(calls, LAMBDA e : e.call = "mq_send" /\ e.err = 0 /\ e.name = name)
    IN  [k \in 1..Len(s) |-> [text |-> s[k].text, prio |-> s[k].prio]]

\* C13: send never fails for the length of the payload alone: a payload
\* longer than the queue's maximum message size is enqueued as exactly its
\* first maximum-size bytes (with the truncation warning), a payload that is
\* not longer is enqueued whole, and in both cases the send returns 0 when
\* no service call was made to fail.
C13_SendTruncates ==
    verb = "send" =>
        /\ \A k \in 1..Len(calls) :
              calls[k].call = "mq_send" =>
                 /\ calls[k].err # EMSGSIZE
                 /\ calls[k].text = Prefix(contents[calls[k].itc], mq[calls[k].name].msgsize)
        /\ \A n \in DOMAIN mq : mq[n].exists => mq[n].msgs = Sent(n)
        /\ (pc = "run" /\ op_pc = "return" /\ Failed(OpCalls) = {}) => result = 0
        /\ \A w \in 1..Len(warnings) :
              warnings[w][1] = "truncating message" =>
                 \E n \in DOMAIN mq : mq[n].exists /\ strlen(warnings[w][2]) > mq[n].msgsize
        /\ \A k \in 1..Len(calls) :
              (calls[k].call = "mq_send"
                 /\ strlen(contents[calls[k].itc]) > mq[calls[k].name].msgsize) =>
                    \E w \in 1..Len(warnings) :
                        warnings[w] = <<"truncating message", contents[calls[k].itc]>>

\* "hi" and "hello" were sent to /a, which takes two bytes
C13_Witness ==
    /\ SendDone /\ exit_status = 0
    /\ mq["/a"].msgsize = 2
    /\ mq["/a"].msgs = <<[text |-> <<"h", "i">>, prio |-> 5],
                         [text |-> <<"h", "e">>, prio |-> 5]>>
    /\ warnings = <<<<"truncating message", "hello">>>>


\* the well formed names among a sequence of tokens, in order
RECURSIVE WellFormedOf(_)
WellFormedOf(ts) ==
    IF ts = <<>> THEN <<>>
    ELSE (IF WellFormedName(Bytes[ts[1]]) THEN <<ts[1]>> ELSE <<>>) \o WellFormedOf(Tail(ts))

\* C14: sane_queue accepts a string exactly when it starts with '/', holds
\* no further '/' and is at most PATH_MAX long: the parser of many names
\* appends exactly the -q values of that form, in order, the parser of a
\* single name keeps the first of them, and every value not of that form
\* (the empty string too) is rejected with an error and never appended.
C14_SaneNamesOnly ==
    /\ verb = "info" => queues = WellFormedOf(Values)
    /\ verb = "recv" =>
          queues = (IF WellFormedOf(Values) = <<>> THEN <<>> ELSE <<WellFormedOf(Values)[1]>>)
    /\ verb \in {"info", "recv"} =>
          /\ \A k \in 1..Len(queues) : WellFormedName(Bytes[queues[k]])
          /\ \A k \in 1..Len(Values) :
                (\E w \in 1..Len(warnings) : warnings[w] = <<"queue name", Values[k]>>)
                   <=> ~WellFormedName(Bytes[Values[k]])

\* a name of PATH_MAX + 1 characters was rejected and one of PATH_MAX kept
C14_Witness ==
    /\ verb = "info" /\ pc = "exit"
    /\ Len(Values) = 2
    /\ Len(Bytes[Values[1]]) = PATH_MAX + 1
    /\ Len(Bytes[Values[2]]) = PATH_MAX
    /\ queues = <<Values[2]>>
    /\ warnings = <<<<"queue name", Values[1]>>>>


-----------------------------------------------------------------------------
(* create: ownership, the racing creator, the mode of a created queue      *)

\* the returning create inspected the queue: its fstat succeeded
Inspected ==
    /\ CreateReturns
    /\ \E k \in 1..Len(OpCalls) : OpCalls[k].call = "fstat" /\ OpCalls[k].err = 0

Chowns == SelectSeq(OpCalls, LAMBDA e : e.call = "fchown")

\* C15: a create that has opened and inspected its queue, an owner or a
\* group being requested, makes exactly one fchown call, with uid = the
\* requested user if one was given and the observed owner otherwise, and gid
\* likewise; if the call fails the handle is closed, create returns the
\* failure code and makes no fchmod call.  When neither was requested no
\* fchown call is made at all.
C15_OwnershipChange ==
    /\ (Inspected /\ (creation.set_user \/ creation.set_group)) =>
          /\ Len(Chowns) = 1
          /\ Chowns[1].uid = (IF creation.set_user THEN creation.user ELSE status.st_uid)
          /\ Chowns[1].gid = (IF creation.set_group THEN creation.group ELSE status.st_gid)
          /\ Chowns[1].err # 0 =>
                /\ result = Chowns[1].err
                /\ CountCalls(OpCalls, "fchmod") = 0
                /\ OpCalls[Len(OpCalls)].call = "mq_close"
                /\ handles = {}
    /\ (~creation.set_user /\ ~creation.set_group) => CountCalls(calls, "fchown") = 0

\* only the owner was requested, the group passed is the observed one, the
\* call failed, and the mode change that was due was not made
C15_Witness ==
    /\ Inspected /\ creation.set_user /\ ~creation.set_group
    /\ Len(Chowns) = 1
    /\ Chowns[1].uid = 7 /\ Chowns[1].gid = Process.gid
    /\ Chowns[1].err = EPERM /\ result = EPERM
    /\ creation.set_mode /\ q_creation.exists
    /\ creation.mode # BitAnd(status.st_mode, ModeMask)

\* the returning create found no queue, another process then created it, and
\* create went on to its open with O_CREAT
Raced ==
    /\ CreateReturns
    /\ \E p \in 1..Len(calls) : \E e \in (p + 1)..Len(calls) : \E c \in (e + 1)..Len(calls) :
          /\ calls[p].it = it /\ calls[p].call = "mq_open" /\ calls[p].err = ENOENT
          /\ calls[e].call = "mq_open by another process" /\ calls[e].name = Target
          /\ calls[c].it = it /\ IsCreating(calls[c])

\* C16: when another process creates the queue between create's failed open
\* and its open with O_CREAT, that open is not refused for the queue being
\* there: it obtains the queue of the other process, which keeps its
\* attributes, the later steps inspect and change that queue, and create
\* returns 0 when they succeed.
C16_RaceIsBenign ==
    Raced =>
        /\ \A k \in 1..Len(OpCalls) : OpCalls[k].err # EEXIST
        /\ Failed(OpCalls) = {1} =>
              /\ result = 0
              /\ status = StatOf(OtherQueue)
              /\ mq[Target].maxmsg = OtherQueue.maxmsg
              /\ mq[Target].msgsize = OtherQueue.msgsize
              /\ mq[Target].mode = OtherQueue.mode
              /\ Len(Chowns) = 1 =>
                    /\ mq[Target].uid = Chowns[1].uid
                    /\ mq[Target].gid = Chowns[1].gid

\* the queue of the other process was given the requested owner and kept
\* its group
C16_Witness ==
    /\ Raced /\ result = 0 /\ Failed(OpCalls) = {1}
    /\ Len(Chowns) = 1
    /\ mq[Target].uid = 7 /\ mq[Target].gid = OtherQueue.gid
    /\ mq[Target].maxmsg = OtherQueue.maxmsg

\* C17: a create operation that goes through the open with O_CREAT clears
\* its set_mode and makes no fchmod call, whatever mode was requested and
\* whatever permission bits it observes afterwards; an fchmod call is only
\* made by an operation whose first open, without O_CREAT, succeeded.
C17_NoChmodOnCreationPath ==
    /\ \A k \in 1..Len(calls) :
          calls[k].call = "fchmod" =>
             /\ \E p \in 1..(k - 1) :
                   /\ calls[p].it = calls[k].it
                   /\ calls[p].call = "mq_open" /\ ~IsCreating(calls[p])
                   /\ calls[p].err = 0
             /\ \A p \in 1..(k - 1) : calls[p].it = calls[k].it => ~IsCreating(calls[p])
    /\ (CreateReturns /\ \E k \in 1..Len(OpCalls) : IsCreating(OpCalls[k])) =>
          /\ ~q_creation.set_mode
          /\ CountCalls(OpCalls, "fchmod") = 0

\* a mode was requested, the queue obtained by the open with O_CREAT shows
\* other permission bits, and create returned 0 without changing them
C17_Witness ==
    /\ CreateReturns /\ result = 0
    /\ \E k \in 1..Len(OpCalls) : IsCreating(OpCalls[k])
    /\ creation.set_mode
    /\ creation.mode # status.st_mode
    /\ creation.mode # BitAnd(status.st_mode, ModeMask)
    /\ mq[Target].mode = status.st_mode


-----------------------------------------------------------------------------
(* Scalar options                                                          *)

\* a token that is a number of the base from end to end: an optional sign
\* and digits
IsNumber(text, base) ==
    LET s == Bytes[text]
        d == IF s # <<>> /\ s[1] \in {"-", "+"} THEN Tail(s) ELSE s
    IN  d # <<>> /\ \A i \in 1..Len(d) : IsDigit(d[i], base)

\* the value token of an occurrence of a scalar option is well formed and in
\* the range of the option
GoodValue(parse, text) ==
    CASE parse \in {"parse_depth", "parse_size"} -> IsNumber(text, 10)
      [] parse = "parse_block" ->
            text \in {"true", "yes", "false", "no"} \/ IsNumber(text, 10)
      [] parse = "parse_mode" ->
            /\ IsNumber(text, 8)
            /\ strtol(text, 8).value > 0
            /\ strtol(text, 8).value < 4096
      [] parse = "parse_priority" ->
            /\ IsNumber(text, 10)
            /\ strtol(text, 10).value >= 0
            /\ strtol(text, 10).value < MQ_PRIO_MAX
      [] OTHER -> FALSE

\* what such a value token configures
Meaning(parse, text) ==
    CASE parse = "parse_block" ->
            IF text \in {"true", "yes"} THEN TRUE
            ELSE IF text \in {"false", "no"} THEN FALSE
            ELSE strtol(text, 10).value # 0
      [] parse = "parse_mode" -> strtol(text, 8).value
      [] OTHER -> strtol(text, 10).value

\* the occurrences of an option parsed so far whose value is good
GoodAt(parse) ==
    {k \in 1..Len(invoked) : invoked[k][2] = parse /\ GoodValue(parse, Values[k])}

\* the value of the last good occurrence, or the default
Expected(parse, default) ==
    IF GoodAt(parse) = {} THEN default
    ELSE Meaning(parse, Values[CHOOSE k \in GoodAt(parse) : \A j \in GoodAt(parse) : j <= k])

\* C18: each scalar option (depth, size, block, mode, priority) is
\* configured with the value of its last occurrence whose value token is
\* well formed and in range, or keeps its default if there is none; an
\* occurrence with a malformed or out of range value leaves the field, and
\* set_mode, as they were.
C18_LastGoodValueWins ==
    verb \in {"create", "send"} =>
        /\ creation.depth = Expected("parse_depth", -1)
        /\ creation.size = Expected("parse_size", -1)
        /\ creation.block = Expected("parse_block", TRUE)
        /\ creation.mode = Expected("parse_mode", 493)
        /\ creation.set_mode = (GoodAt("parse_mode") # {})
        /\ priority = Expected("parse_priority", 32)

\* C19: the configured priority is always in [0, MQ_PRIO_MAX) and the
\* configured mode in (0, 010000): the mode validator passes, and every
\* mq_send call is made with the configured priority, inside the range.
C19_PriorityAndModeInRange ==
    /\ priority >= 0 /\ priority < MQ_PRIO_MAX
    /\ creation.mode > 0 /\ creation.mode < 4096
    /\ validate_mode
    /\ (verb = "create" /\ queues # <<>> /\ pc = "exit") => Len(results) = Len(queues)
    /\ \A k \in 1..Len(calls) :
          calls[k].call = "mq_send" =>
             /\ calls[k].prio = priority
             /\ calls[k].prio >= 0 /\ calls[k].prio < MQ_PRIO_MAX

\* priorities at both ends outside the range were given after one inside
\* it, and the message was sent with the one inside
C19_Witness ==
    /\ verb = "send" /\ pc = "exit" /\ exit_status = 0
    /\ Values = <<"/a", "hi", "5", "64", "-1">>
    /\ priority = 5
    /\ \E k \in 1..Len(calls) : calls[k].call = "mq_send" /\ calls[k].prio = 5 /\ calls[k].err = 0


-----------------------------------------------------------------------------
(* The scan of parse_options                                               *)

\* how often the token at C index i was accounted for: as the flag of a
\* parse call, as the value of a parse call, as a token reported skipped
Accounted(i) ==
    Cardinality({k \in 1..Len(invoked) : invoked[k][1] = i})
    + Cardinality({k \in 1..Len(invoked) : invoked[k][3] = i})
    + Cardinality({k \in 1..Len(skipped) : skipped[k] = i})

\* the scan so far is in order: the position is inside the argument list,
\* every parse call took the token after its flag, inside the list, and the
\* tokens the scan has passed are each accounted for once, the others not
ScanInOrder ==
    verb # "" =>
        /\ index >= 2 /\ index <= argc
        /\ \A k \in 1..Len(invoked) :
              /\ invoked[k][1] >= 2
              /\ invoked[k][3] = invoked[k][1] + 1
              /\ invoked[k][3] < argc
        /\ \A k \in 1..Len(skipped) : skipped[k] >= 2 /\ skipped[k] < argc
        /\ \A i \in 2..(argc - 1) :
              Accounted(i) = (IF pc = "parse" /\ i >= index THEN 0 ELSE 1)

\* C20: the scan of parse_options ends for every argument list and every
\* option table: the position strictly increases at each iteration and never
\* exceeds argc, a parse operation is only called with a value token inside
\* argv, and every token from the start offset on is accounted for exactly
\* once, as the flag or the value of a parse call or as a skipped token (the
\* single token left over at the end too).
C20_ScanTerminates ==
    /\ []ScanInOrder
    /\ [][(pc = "parse" /\ pc' = "parse") => index' > index]_vars
    /\ <>(pc \notin {"start", "parse"})

\* a value without a flag, a flag with its value, a flag no table knows and
\* a flag left over without a value: all accounted for when the scan ended
C20_Witness ==
    /\ pc = "validate"
    /\ argc = 7
    /\ invoked = <<<<3, "parse_queue", 4>>>>
    /\ skipped = <<2, 5, 6>>
    /\ Arg(6) = "-q"


\* -------------------------------------------------------------------------
\* create: the shared configuration and the copy each target works on
\* -------------------------------------------------------------------------

\* the step enters create for the next target of the batch
EntersCreate == pc = "run" /\ verb = "create" /\ op_pc = "idle" /\ op_pc' # "idle"

\* the step is the successful fstat of a target whose open without O_CREAT
\* succeeded
StatsExisting ==
    /\ pc = "run" /\ verb = "create" /\ op_pc = "fstat" /\ op_pc' # "fstat"
    /\ calls'[Len(calls')].call = "fstat" /\ calls'[Len(calls')].err = 0
    /\ \E p \in 1..Len(calls) :
          /\ calls[p].it = it /\ calls[p].call = "mq_open"
          /\ ~IsCreating(calls[p]) /\ calls[p].err = 0

\* C21: nothing create does while it reconciles a target alters the shared
\* creation: once the options are parsed, creation never changes; every
\* target, the first and the later ones alike, starts from a copy equal to
\* creation; and what a target is given depends on creation alone, not on
\* the targets before it: every fchown and fchmod call carries the mode,
\* the user and the group of creation when they were requested, and a queue
\* that exists and shows other permission bits than the requested mode goes
\* on to its fchown or fchmod call even after an earlier target of the batch
\* was newly created.
C21_SharedConfigurationKept ==
    [][ /\ pc \notin {"start", "parse"} => creation' = creation
        /\ EntersCreate => q_creation' = creation
        /\ (StatsExisting /\ creation.set_mode
              /\ creation.mode # BitAnd(status'.st_mode, ModeMask)) =>
              op_pc' \in {"fchown", "fchmod"}
        /\ (verb = "create" /\ Len(calls') > Len(calls)) =>
              LET e == calls'[Len(calls')]
              IN  /\ e.call = "fchmod" => creation.set_mode /\ e.mode = creation.mode
                  /\ e.call = "fchown" =>
                        /\ creation.set_user \/ creation.set_group
                        /\ creation.set_user => e.uid = creation.user
                        /\ creation.set_group => e.gid = creation.group
      ]_vars

\* the first target was newly created, which cleared set_mode in its copy,
\* and the second target, a queue that existed, was given the requested mode
C21_Witness ==
    /\ verb = "create" /\ it = 2 /\ creation.set_mode /\ q_creation.set_mode
    /\ \E c \in 1..Len(calls) : \E m \in (c + 1)..Len(calls) :
          /\ calls[c].it = 1 /\ IsCreating(calls[c]) /\ calls[c].err = 0
          /\ calls[m].it = 2 /\ calls[m].call = "fchmod" /\ calls[m].err = 0
          /\ calls[m].mode = creation.mode
          /\ mq[calls[m].name].mode = creation.mode
          /\ mq[calls[c].name].mode = creation.mode

=============================================================================
